---- MODULE Spec2Model ----
(***************************************************************************)
(* Model of the prefetch pipeline of caffe's BasePrefetchingDataLayer      *)
(* (src/caffe/layers/base_data_layer.cpp): a pool of PREFETCH_COUNT        *)
(* batches cycling between prefetch_free_ and prefetch_full_, a prefetch   *)
(* thread (InternalThreadEntry) and the consumer's Forward_cpu.            *)
(***************************************************************************)
EXTENDS Naturals, Sequences, FiniteSets, TLC

\* ---------------------------------------------------------------- bounds
\* Largest pool size explored (the pool size is fixed per behaviour).
MaxSlots == 3
\* Largest number of Forward_cpu calls the consumer starts.
MaxCalls == 5

\* ------------------------------------------------------- program constants
\* top[1] .. top[9] are the label blobs Forward_cpu fills.
NumLabels == 9

\* The value of a `batch` local that refers to no slot.
NoBatch == MaxSlots + 1

VARIABLES
  PREFETCH_COUNT,          \* pool size N
  gpu,                     \* Caffe::mode() == Caffe::GPU in a build without CPU_ONLY
  output_labels_,          \* BaseDataLayer::output_labels_
  prefetch_,               \* the pool: slot -> batch contents
  prefetch_free_,          \* queue of free slots
  prefetch_full_,          \* queue of full slots
  top,                     \* the caller's destination blobs top[0..9]
  wpc,                     \* position of the prefetch thread
  wbatch,                  \* the local `batch` of InternalThreadEntry
  stream,                  \* the thread's cudaStream_t
  cpc,                     \* position of the consumer inside Forward_cpu
  cbatch,                  \* the local `batch` of Forward_cpu
  interruption_requested,  \* the thread's pending interruption
  tpc,                     \* position of the thread that stops the worker
  loads,                   \* number of load_batch invocations started
  delivered,               \* history: primary sequence number of each returned call
  touched,                 \* history: indices of top ever reshaped or written
  stopInfo,                \* history: what was true when the stop was requested
  notified,                \* per queue: its condition was signalled to the waiting popper
  warned                   \* history: the diagnostic pop has logged its warning

vars == <<PREFETCH_COUNT, gpu, output_labels_, prefetch_, prefetch_free_,
          prefetch_full_, top, wpc, wbatch, stream, cpc, cbatch,
          interruption_requested, tpc, loads, delivered, touched, stopInfo,
          notified, warned>>

Slots == 0 .. (PREFETCH_COUNT - 1)
LabelIdx == 1 .. NumLabels

\* ------------------------------------------------------------------ blobs
\* A blob is a shape and its contents; the contents written by the loader's
\* k-th invocation into array i are the stamp <<k, i>>.
EmptyBlob == [shape |-> 0, val |-> <<0, 0>>]

\* The shape the loader gives its k-th batch (batches differ in shape).
ShapeOf(k) == 1 + (k % 2)

LoadedBlob(k, i) == [shape |-> ShapeOf(k), val |-> <<k, i>>]

\* Mutant of ReshapeAndCopy: the destination is reshaped but the contents are
\* not copied.
ReshapeOnly(src) == [shape |-> src.shape, val |-> <<0, 0>>]

\* top[i]->ReshapeLike(src); caffe_copy(src.count(), src.cpu_data(), top[i])
ReshapeAndCopy(src) == [shape |-> src.shape, val |-> src.val]

EmptyBatch ==
  [data_ |-> EmptyBlob,
   labels |-> [i \in LabelIdx |-> EmptyBlob],
   complete |-> TRUE,
   staged |-> "none"]

\* ----------------------------------------------------------------- queues
QPush(q, b) == Append(q, b)
QEmpty(q) == q = <<>>
\* Mutant of QFront: the element pushed last is returned.
QFront_Back(q) == q[Len(q)]

QFront(q) == Head(q)
QRest(q) == Tail(q)

\* try_pop(): the head and the rest when there is an element, nothing and the
\* queue as it was when there is none; it never waits.
QTryPop(q) ==
  IF QEmpty(q) THEN [found |-> FALSE, queue |-> q]
               ELSE [found |-> TRUE, slot |-> QFront(q), queue |-> QRest(q)]

\* Mutant of NotifyOne: the push signals nobody.
NotifyNone(popper) == FALSE

\* notify_one() of a push: a popper waiting on the queue's condition at that
\* moment is signalled; with no popper waiting the signal has no effect.
NotifyOne(popper) == popper = "wait"

\* Mutant of Iota: the constructor's loop runs from the last slot down.
Iota_Reverse(i, n) == [j \in 1 .. (n - i) |-> n - j]

\* The slots i .. n-1 in the order the constructor's loop pushes them.
RECURSIVE Iota(_, _)
Iota(i, n) == IF i >= n THEN <<>> ELSE <<i>> \o Iota(i + 1, n)

\* ------------------------------------------------------------------- Init
\* State after BasePrefetchingDataLayer's constructor: every slot pushed on
\* prefetch_free_ in index order, nothing started.  output_labels_ is not
\* set by the constructors; no action reads it before LayerSetUp assigns it.
Init ==
  /\ PREFETCH_COUNT \in 1 .. MaxSlots
  /\ gpu \in BOOLEAN
  /\ output_labels_ = FALSE
  /\ prefetch_ = [s \in 0 .. (PREFETCH_COUNT - 1) |-> EmptyBatch]
  /\ prefetch_free_ = Iota(0, PREFETCH_COUNT)
  /\ prefetch_full_ = <<>>
  /\ top = [i \in 0 .. NumLabels |-> EmptyBlob]
  /\ wpc = "idle"
  /\ wbatch = NoBatch
  /\ stream = "none"
  /\ cpc = "idle"
  /\ cbatch = NoBatch
  /\ interruption_requested = FALSE
  /\ tpc = "idle"
  /\ loads = 0
  /\ delivered = <<>>
  /\ touched = {}
  /\ stopInfo = [requested |-> FALSE, blocked |-> FALSE, drained |-> FALSE,
                 pops |-> 0, pushes |-> 0, held |-> NoBatch,
                 pushed |-> NoBatch, exit |-> "none"]
  /\ notified = [free |-> FALSE, full |-> FALSE]
  /\ warned = FALSE

\* ------------------------------------------------------------- LayerSetUp
\* BaseDataLayer::LayerSetUp decides output_labels_ from top.size();
\* BasePrefetchingDataLayer::LayerSetUp touches the slots' storage and
\* starts the prefetch thread.
LayerSetUp ==
  /\ wpc = "idle"
  /\ \E topSize \in {1, NumLabels + 1} :
       output_labels_' = (topSize # 1)
  /\ wpc' = "entry"
  /\ UNCHANGED <<notified, warned, PREFETCH_COUNT, gpu, prefetch_, prefetch_free_, prefetch_full_,
                 top, wbatch, stream, cpc, cbatch, interruption_requested, tpc,
                 loads, delivered, touched, stopInfo>>

\* ------------------------------------------------------ the prefetch thread
\* cudaStreamCreateWithFlags before the loop.
W_Entry ==
  /\ wpc = "entry"
  /\ stream' = IF gpu THEN "created" ELSE stream
  /\ wpc' = "check"
  /\ UNCHANGED <<notified, warned, PREFETCH_COUNT, gpu, output_labels_, prefetch_, prefetch_free_,
                 prefetch_full_, top, wbatch, cpc, cbatch,
                 interruption_requested, tpc, loads, delivered, touched,
                 stopInfo>>

\* must_stop(): the thread's interruption_requested().
must_stop == interruption_requested

\* Mutant of W_Check: the loop condition is inverted, while (must_stop()).
W_Check_Inverted ==
  /\ wpc = "check"
  /\ wpc' = IF must_stop THEN "pop" ELSE "cleanup"
  /\ UNCHANGED <<notified, warned, PREFETCH_COUNT, gpu, output_labels_,
                 prefetch_, prefetch_free_, prefetch_full_, top, wbatch,
                 stream, cpc, cbatch, interruption_requested, tpc, loads,
                 delivered, touched, stopInfo>>

\* while (!must_stop())
W_Check ==
  /\ wpc = "check"
  /\ wpc' = IF must_stop THEN "cleanup" ELSE "pop"
  /\ stopInfo' = IF must_stop THEN [stopInfo EXCEPT !.exit = "check"]
                              ELSE stopInfo
  /\ UNCHANGED <<notified, warned, PREFETCH_COUNT, gpu, output_labels_,
                 prefetch_, prefetch_free_, prefetch_full_, top, wbatch,
                 stream, cpc, cbatch, interruption_requested, tpc, loads,
                 delivered, touched>>

\* Mutant of TakeFree: the worker looks at the head of prefetch_free_
\* (peek) without removing it.
TakeFree_Peek ==
  /\ wbatch' = QFront(prefetch_free_)
  /\ wpc' = "load"
  /\ UNCHANGED <<prefetch_free_, stopInfo, interruption_requested>>

\* The worker takes the head of prefetch_free_.
TakeFree ==
  /\ wbatch' = QFront(prefetch_free_)
  /\ prefetch_free_' = QRest(prefetch_free_)
  /\ wpc' = "load"
  /\ stopInfo' = IF stopInfo.requested
                   THEN [stopInfo EXCEPT !.pops = IF @ < 2 THEN @ + 1 ELSE @]
                   ELSE stopInfo
  /\ UNCHANGED interruption_requested

\* The blocking wait is an interruption point: a pending interruption is
\* consumed and thread_interrupted is thrown.
ThrowInterrupted ==
  /\ interruption_requested' = FALSE
  /\ wpc' = "catch"
  /\ UNCHANGED <<wbatch, prefetch_free_, stopInfo>>

\* Batch<Dtype>* batch = prefetch_free_.pop(): under the queue's mutex the
\* worker takes the head, or starts waiting on the condition when the queue
\* is empty.
W_Pop ==
  /\ wpc = "pop"
  /\ IF ~QEmpty(prefetch_free_)
       THEN TakeFree
       ELSE IF interruption_requested
              THEN ThrowInterrupted
              ELSE /\ wpc' = "wait"
                   /\ UNCHANGED <<wbatch, prefetch_free_, stopInfo,
                                  interruption_requested>>
  /\ notified' = [notified EXCEPT !.free = FALSE]
  /\ UNCHANGED <<warned, PREFETCH_COUNT, gpu, output_labels_, prefetch_,
                 prefetch_full_, top, stream, cpc, cbatch, tpc, loads,
                 delivered, touched>>

\* The worker waiting inside pop() is woken by the signal of a push or by an
\* interruption; the interruption is checked first, then the queue is looked
\* at again (and the wait resumed if it is still empty).
W_Wake ==
  /\ wpc = "wait"
  /\ interruption_requested \/ notified.free
  /\ IF interruption_requested
       THEN ThrowInterrupted
       ELSE IF ~QEmpty(prefetch_free_)
              THEN TakeFree
              ELSE UNCHANGED <<wpc, wbatch, prefetch_free_, stopInfo,
                               interruption_requested>>
  /\ notified' = [notified EXCEPT !.free = FALSE]
  /\ UNCHANGED <<warned, PREFETCH_COUNT, gpu, output_labels_, prefetch_,
                 prefetch_full_, top, stream, cpc, cbatch, tpc, loads,
                 delivered, touched>>

\* Mutant of W_Load: the slot is pushed on prefetch_full_ before load_batch
\* has run (the push of line 107 placed ahead of the load).
W_Load_PublishEarly ==
  /\ wpc = "load"
  /\ loads' = loads + 1
  /\ prefetch_' = [prefetch_ EXCEPT ![wbatch] =
                     [@ EXCEPT !.data_ = LoadedBlob(loads + 1, 0),
                               !.complete = FALSE,
                               !.staged = "none"]]
  /\ prefetch_full_' = QPush(prefetch_full_, wbatch)
  /\ notified' = [notified EXCEPT !.full = @ \/ NotifyOne(cpc)]
  /\ wpc' = "loading"
  /\ UNCHANGED <<warned, PREFETCH_COUNT, gpu, output_labels_, prefetch_free_,
                 top, wbatch, stream, cpc, cbatch,
                 interruption_requested, tpc, delivered, touched, stopInfo>>

\* Mutant of W_Load: load_batch contains an interruption point, so a pending
\* interruption is thrown out of it with the slot in hand.
W_Load_Interruptible ==
  /\ wpc = "load"
  /\ IF interruption_requested
       THEN /\ interruption_requested' = FALSE
            /\ wpc' = "catch"
            /\ UNCHANGED <<loads, prefetch_>>
       ELSE /\ loads' = loads + 1
            /\ prefetch_' = [prefetch_ EXCEPT ![wbatch] =
                               [@ EXCEPT !.data_ = LoadedBlob(loads + 1, 0),
                                         !.complete = FALSE,
                                         !.staged = "none"]]
            /\ wpc' = "loading"
            /\ UNCHANGED interruption_requested
  /\ UNCHANGED <<notified, warned, PREFETCH_COUNT, gpu, output_labels_,
                 prefetch_free_, prefetch_full_, top, wbatch, stream, cpc,
                 cbatch, tpc, delivered, touched, stopInfo>>

\* load_batch(batch) starts: the loader begins overwriting the slot with its
\* next batch (the primary array first).
W_Load ==
  /\ wpc = "load"
  /\ loads' = loads + 1
  /\ prefetch_' = [prefetch_ EXCEPT ![wbatch] =
                     [@ EXCEPT !.data_ = LoadedBlob(loads + 1, 0),
                               !.complete = FALSE,
                               !.staged = "none"]]
  /\ wpc' = "loading"
  /\ UNCHANGED <<notified, warned, PREFETCH_COUNT, gpu, output_labels_, prefetch_free_,
                 prefetch_full_, top, wbatch, stream, cpc, cbatch,
                 interruption_requested, tpc, delivered, touched, stopInfo>>

\* Mutant of W_LoadDone: must_stop() is tested again right after load_batch
\* and the loop is left with the loaded slot still in hand.
W_LoadDone_Abandon ==
  /\ wpc = "loading"
  /\ LET k == prefetch_[wbatch].data_.val[1] IN
       prefetch_' = [prefetch_ EXCEPT ![wbatch] =
                       [@ EXCEPT !.labels =
                                   IF output_labels_
                                     THEN [i \in LabelIdx |-> LoadedBlob(k, i)]
                                     ELSE @,
                                 !.complete = TRUE]]
  /\ wpc' = IF must_stop THEN "cleanup" ELSE IF gpu THEN "gpu_push" ELSE "push"
  /\ UNCHANGED <<notified, warned, PREFETCH_COUNT, gpu, output_labels_,
                 prefetch_free_, prefetch_full_, top, wbatch, stream, cpc,
                 cbatch, interruption_requested, tpc, loads, delivered,
                 touched, stopInfo>>

\* load_batch(batch) returns: the secondary arrays are written when labels
\* are output, and the slot is fully populated.
W_LoadDone ==
  /\ wpc = "loading"
  /\ LET k == prefetch_[wbatch].data_.val[1] IN
       prefetch_' = [prefetch_ EXCEPT ![wbatch] =
                       [@ EXCEPT !.labels =
                                   IF output_labels_
                                     THEN [i \in LabelIdx |-> LoadedBlob(k, i)]
                                     ELSE @,
                                 !.complete = TRUE]]
  /\ wpc' = IF gpu THEN "gpu_push" ELSE "push"
  /\ UNCHANGED <<notified, warned, PREFETCH_COUNT, gpu, output_labels_, prefetch_free_,
                 prefetch_full_, top, wbatch, stream, cpc, cbatch,
                 interruption_requested, tpc, loads, delivered, touched,
                 stopInfo>>

\* Mutant of W_AsyncPush: the transfer is enqueued but the stream is never
\* synchronized before the push.
W_AsyncPush_NoSync ==
  /\ wpc = "gpu_push"
  /\ prefetch_' = [prefetch_ EXCEPT ![wbatch].staged = "enqueued"]
  /\ wpc' = "push"
  /\ UNCHANGED <<notified, warned, PREFETCH_COUNT, gpu, output_labels_, prefetch_free_,
                 prefetch_full_, top, wbatch, stream, cpc, cbatch,
                 interruption_requested, tpc, loads, delivered, touched,
                 stopInfo>>

\* batch->data_.data().get()->async_gpu_push(stream);
W_AsyncPush ==
  /\ wpc = "gpu_push"
  /\ prefetch_' = [prefetch_ EXCEPT ![wbatch].staged = "enqueued"]
  /\ wpc' = "gpu_sync"
  /\ UNCHANGED <<notified, warned, PREFETCH_COUNT, gpu, output_labels_, prefetch_free_,
                 prefetch_full_, top, wbatch, stream, cpc, cbatch,
                 interruption_requested, tpc, loads, delivered, touched,
                 stopInfo>>

\* CUDA_CHECK(cudaStreamSynchronize(stream));
W_Sync ==
  /\ wpc = "gpu_sync"
  /\ prefetch_' = [prefetch_ EXCEPT ![wbatch].staged = "synced"]
  /\ wpc' = "push"
  /\ UNCHANGED <<notified, warned, PREFETCH_COUNT, gpu, output_labels_, prefetch_free_,
                 prefetch_full_, top, wbatch, stream, cpc, cbatch,
                 interruption_requested, tpc, loads, delivered, touched,
                 stopInfo>>

\* Mutant of W_Push: the filled slot is pushed on prefetch_free_ instead of
\* prefetch_full_.
W_Push_ToFree ==
  /\ wpc = "push"
  /\ prefetch_free_' = QPush(prefetch_free_, wbatch)
  /\ wbatch' = NoBatch
  /\ wpc' = "check"
  /\ UNCHANGED <<notified, warned, PREFETCH_COUNT, gpu, output_labels_, prefetch_, prefetch_full_,
                 top, stream, cpc, cbatch, interruption_requested, tpc, loads,
                 delivered, touched, stopInfo>>

\* Mutant of W_Push: the loop body runs once (an if in place of the while)
\* and the thread goes on to its cleanup after the first push.
W_Push_Once ==
  /\ wpc = "push"
  /\ prefetch_full_' = QPush(prefetch_full_, wbatch)
  /\ wbatch' = NoBatch
  /\ wpc' = "cleanup"
  /\ notified' = [notified EXCEPT !.full = @ \/ NotifyOne(cpc)]
  /\ stopInfo' = IF stopInfo.requested
                   THEN [stopInfo EXCEPT !.pushes = IF @ < 2 THEN @ + 1 ELSE @,
                                         !.pushed = wbatch]
                   ELSE stopInfo
  /\ UNCHANGED <<warned, PREFETCH_COUNT, gpu, output_labels_, prefetch_,
                 prefetch_free_, top, stream, cpc, cbatch,
                 interruption_requested, tpc, loads, delivered, touched>>

\* prefetch_full_.push(batch); and the end of the loop body.
W_Push ==
  /\ wpc = "push"
  /\ prefetch_full_' = QPush(prefetch_full_, wbatch)
  /\ wbatch' = NoBatch
  /\ wpc' = "check"
  /\ notified' = [notified EXCEPT !.full = @ \/ NotifyOne(cpc)]
  /\ stopInfo' = IF stopInfo.requested
                   THEN [stopInfo EXCEPT !.pushes = IF @ < 2 THEN @ + 1 ELSE @,
                                         !.pushed = wbatch]
                   ELSE stopInfo
  /\ UNCHANGED <<warned, PREFETCH_COUNT, gpu, output_labels_, prefetch_, prefetch_free_,
                 top, stream, cpc, cbatch, interruption_requested, tpc, loads,
                 delivered, touched>>

\* Mutant of W_Catch: the interruption is caught inside the loop and the loop
\* goes on.
W_Catch_Continue ==
  /\ wpc = "catch"
  /\ wpc' = "check"
  /\ UNCHANGED <<notified, warned, PREFETCH_COUNT, gpu, output_labels_, prefetch_, prefetch_free_,
                 prefetch_full_, top, wbatch, stream, cpc, cbatch,
                 interruption_requested, tpc, loads, delivered, touched,
                 stopInfo>>

\* Mutant of W_Catch: the interruption is not caught and ends the thread as
\* an uncaught exception, without the cleanup.
W_Catch_Fatal ==
  /\ wpc = "catch"
  /\ wpc' = "fatal"
  /\ UNCHANGED <<notified, warned, PREFETCH_COUNT, gpu, output_labels_, prefetch_, prefetch_free_,
                 prefetch_full_, top, wbatch, stream, cpc, cbatch,
                 interruption_requested, tpc, loads, delivered, touched,
                 stopInfo>>

\* catch (boost::thread_interrupted&) { } : expected on shutdown.
W_Catch ==
  /\ wpc = "catch"
  /\ wpc' = "cleanup"
  /\ stopInfo' = [stopInfo EXCEPT !.exit = "interrupt"]
  /\ UNCHANGED <<notified, warned, PREFETCH_COUNT, gpu, output_labels_,
                 prefetch_, prefetch_free_, prefetch_full_, top, wbatch,
                 stream, cpc, cbatch, interruption_requested, tpc, loads,
                 delivered, touched>>

\* cudaStreamDestroy(stream) and the return of InternalThreadEntry.
W_Cleanup ==
  /\ wpc = "cleanup"
  /\ stream' = IF gpu THEN "destroyed" ELSE stream
  /\ wpc' = "stopped"
  /\ UNCHANGED <<notified, warned, PREFETCH_COUNT, gpu, output_labels_, prefetch_, prefetch_free_,
                 prefetch_full_, top, wbatch, cpc, cbatch,
                 interruption_requested, tpc, loads, delivered, touched,
                 stopInfo>>

Worker ==
  \/ W_Entry
  \/ W_Check
  \/ W_Pop
  \/ W_Wake
  \/ W_Load
  \/ W_LoadDone
  \/ W_AsyncPush
  \/ W_Sync
  \/ W_Push
  \/ W_Catch
  \/ W_Cleanup

\* ------------------------------------------------------------ Forward_cpu
\* The caller enters Forward_cpu (only after LayerSetUp).
C_Call ==
  /\ cpc = "idle"
  /\ wpc # "idle"
  /\ Len(delivered) < MaxCalls
  /\ cpc' = "pop"
  /\ UNCHANGED <<notified, warned, PREFETCH_COUNT, gpu, output_labels_, prefetch_, prefetch_free_,
                 prefetch_full_, top, wpc, wbatch, stream, cbatch,
                 interruption_requested, tpc, loads, delivered, touched,
                 stopInfo>>

\* The consumer takes the head of prefetch_full_.
TakeFull ==
  /\ cbatch' = QFront(prefetch_full_)
  /\ prefetch_full_' = QRest(prefetch_full_)
  /\ cpc' = "data"

\* Batch<Dtype>* batch = prefetch_full_.pop("Data layer prefetch queue empty"):
\* under the queue's mutex the consumer takes the head, or starts waiting on
\* the condition when the queue is empty.
C_Pop ==
  /\ cpc = "pop"
  /\ IF ~QEmpty(prefetch_full_)
       THEN TakeFull
       ELSE /\ cpc' = "wait"
            /\ UNCHANGED <<cbatch, prefetch_full_>>
  /\ notified' = [notified EXCEPT !.full = FALSE]
  /\ UNCHANGED <<warned, PREFETCH_COUNT, gpu, output_labels_, prefetch_,
                 prefetch_free_, top, wpc, wbatch, stream,
                 interruption_requested, tpc, loads, delivered, touched,
                 stopInfo>>

\* The consumer waiting inside pop(label) is woken by the signal of a push
\* and looks at the queue again.
C_Wake ==
  /\ cpc = "wait"
  /\ notified.full
  /\ IF ~QEmpty(prefetch_full_)
       THEN TakeFull
       ELSE UNCHANGED <<cpc, cbatch, prefetch_full_>>
  /\ notified' = [notified EXCEPT !.full = FALSE]
  /\ UNCHANGED <<warned, PREFETCH_COUNT, gpu, output_labels_, prefetch_,
                 prefetch_free_, top, wpc, wbatch, stream,
                 interruption_requested, tpc, loads, delivered, touched,
                 stopInfo>>

\* Mutant of C_Timeout: when the warning interval expires the call gives up
\* and returns without a slot.
C_Timeout_GiveUp ==
  /\ cpc = "wait"
  /\ warned' = TRUE
  /\ cpc' = "idle"
  /\ UNCHANGED <<notified, PREFETCH_COUNT, gpu, output_labels_, prefetch_,
                 prefetch_free_, prefetch_full_, top, wpc, wbatch, stream,
                 cbatch, interruption_requested, tpc, loads, delivered,
                 touched, stopInfo>>

\* The warning interval of pop(label) expires while the consumer waits: the
\* warning with the label is logged and the wait loop goes round again.
C_Timeout ==
  /\ cpc = "wait"
  /\ warned' = TRUE
  /\ cpc' = "pop"
  /\ UNCHANGED <<notified, PREFETCH_COUNT, gpu, output_labels_, prefetch_,
                 prefetch_free_, prefetch_full_, top, wpc, wbatch, stream,
                 cbatch, interruption_requested, tpc, loads, delivered,
                 touched, stopInfo>>

\* Mutant of C_CopyData: the label blobs are copied whatever output_labels_ is.
C_CopyData_AlwaysLabels ==
  /\ cpc = "data"
  /\ top' = [top EXCEPT ![0] = ReshapeAndCopy(prefetch_[cbatch].data_)]
  /\ touched' = touched \cup {0}
  /\ cpc' = "labels"
  /\ UNCHANGED <<notified, warned, PREFETCH_COUNT, gpu, output_labels_, prefetch_, prefetch_free_,
                 prefetch_full_, wpc, wbatch, stream, cbatch,
                 interruption_requested, tpc, loads, delivered, stopInfo>>

\* Mutant of C_CopyData: the slot is pushed back on prefetch_free_ right after
\* the primary copy, before the labels are copied.
C_CopyData_ReturnEarly ==
  /\ cpc = "data"
  /\ top' = [top EXCEPT ![0] = ReshapeAndCopy(prefetch_[cbatch].data_)]
  /\ touched' = touched \cup {0}
  /\ prefetch_free_' = QPush(prefetch_free_, cbatch)
  /\ notified' = [notified EXCEPT !.free = @ \/ NotifyOne(wpc)]
  /\ cpc' = IF output_labels_ THEN "labels" ELSE "push"
  /\ UNCHANGED <<warned, PREFETCH_COUNT, gpu, output_labels_, prefetch_,
                 prefetch_full_, wpc, wbatch, stream, cbatch,
                 interruption_requested, tpc, loads, delivered, stopInfo>>

\* top[0]->ReshapeLike(batch->data_); caffe_copy(... batch->data_ ..., top[0]);
\* then the test of output_labels_.
C_CopyData ==
  /\ cpc = "data"
  /\ top' = [top EXCEPT ![0] = ReshapeAndCopy(prefetch_[cbatch].data_)]
  /\ touched' = touched \cup {0}
  /\ cpc' = IF output_labels_ THEN "labels" ELSE "push"
  /\ UNCHANGED <<notified, warned, PREFETCH_COUNT, gpu, output_labels_, prefetch_, prefetch_free_,
                 prefetch_full_, wpc, wbatch, stream, cbatch,
                 interruption_requested, tpc, loads, delivered, stopInfo>>

\* top[1..9]->ReshapeLike(label blobs); caffe_copy of each label blob.
C_CopyLabels ==
  /\ cpc = "labels"
  /\ top' = [i \in 0 .. NumLabels |->
               IF i = 0 THEN top[0]
                        ELSE ReshapeAndCopy(prefetch_[cbatch].labels[i])]
  /\ touched' = touched \cup LabelIdx
  /\ cpc' = "push"
  /\ UNCHANGED <<notified, warned, PREFETCH_COUNT, gpu, output_labels_, prefetch_, prefetch_free_,
                 prefetch_full_, wpc, wbatch, stream, cbatch,
                 interruption_requested, tpc, loads, delivered, stopInfo>>

\* Mutant of C_Push: Forward_cpu returns without giving the slot back.
C_Push_NoReturn ==
  /\ cpc = "push"
  /\ cbatch' = NoBatch
  /\ cpc' = "idle"
  /\ delivered' = Append(delivered, top[0].val[1])
  /\ UNCHANGED <<notified, warned, PREFETCH_COUNT, gpu, output_labels_, prefetch_, prefetch_free_,
                 prefetch_full_, top, wpc, wbatch, stream,
                 interruption_requested, tpc, loads, touched, stopInfo>>

\* Mutant of C_Push: the drained slot is pushed back on prefetch_full_.
C_Push_ToFull ==
  /\ cpc = "push"
  /\ prefetch_full_' = QPush(prefetch_full_, cbatch)
  /\ cbatch' = NoBatch
  /\ cpc' = "idle"
  /\ delivered' = Append(delivered, top[0].val[1])
  /\ UNCHANGED <<notified, warned, PREFETCH_COUNT, gpu, output_labels_, prefetch_, prefetch_free_,
                 top, wpc, wbatch, stream, interruption_requested, tpc, loads,
                 touched, stopInfo>>

\* prefetch_free_.push(batch); and the return of Forward_cpu.
C_Push ==
  /\ cpc = "push"
  /\ prefetch_free_' = QPush(prefetch_free_, cbatch)
  /\ notified' = [notified EXCEPT !.free = @ \/ NotifyOne(wpc)]
  /\ cbatch' = NoBatch
  /\ cpc' = "idle"
  /\ delivered' = Append(delivered, top[0].val[1])
  /\ UNCHANGED <<warned, PREFETCH_COUNT, gpu, output_labels_, prefetch_, prefetch_full_,
                 top, wpc, wbatch, stream, interruption_requested, tpc, loads,
                 touched, stopInfo>>

Consumer ==
  \/ C_Call
  \/ C_Pop
  \/ C_Wake
  \/ C_Timeout
  \/ C_CopyData
  \/ C_CopyLabels
  \/ C_Push

\* ------------------------------------------------------------ the teardown
\* StopInternalThread: interrupt the started thread, then join it.
Stop ==
  /\ tpc = "idle"
  /\ wpc \notin {"idle", "stopped"}
  /\ interruption_requested' = TRUE
  /\ tpc' = "join"
  /\ stopInfo' = [requested |-> TRUE,
                  blocked |-> (wpc = "wait" /\ QEmpty(prefetch_free_)),
                  drained |-> (cpc = "idle" /\ QEmpty(prefetch_full_)),
                  pops |-> 0, pushes |-> 0, held |-> wbatch,
                  pushed |-> NoBatch, exit |-> "none"]
  /\ UNCHANGED <<notified, warned, PREFETCH_COUNT, gpu, output_labels_, prefetch_, prefetch_free_,
                 prefetch_full_, top, wpc, wbatch, stream, cpc, cbatch, loads,
                 delivered, touched>>

\* thread_->join() returns once the thread function has returned.
Join ==
  /\ tpc = "join"
  /\ wpc = "stopped"
  /\ tpc' = "done"
  /\ UNCHANGED <<notified, warned, PREFETCH_COUNT, gpu, output_labels_, prefetch_, prefetch_free_,
                 prefetch_full_, top, wpc, wbatch, stream, cpc, cbatch,
                 interruption_requested, loads, delivered, touched, stopInfo>>

Next ==
  \/ LayerSetUp
  \/ Worker
  \/ Consumer
  \/ Stop
  \/ Join

Spec == Init /\ [][Next]_vars

\* The prefetch thread and the joining thread are OS threads that keep being
\* scheduled; the consumer's calls are the caller's choice.
LiveSpec == Init /\ [][Next]_vars /\ WF_vars(Worker) /\ WF_vars(Join)

\* The steps of a Forward_cpu call once the caller has made it; the expiry of
\* the warning interval is not among them (no progress may rest on it).
ConsumerRun ==
  \/ C_Pop
  \/ C_Wake
  \/ C_CopyData
  \/ C_CopyLabels
  \/ C_Push

\* As LiveSpec, and the caller's thread keeps being scheduled inside a call.
FairSpec ==
  Init /\ [][Next]_vars /\ WF_vars(Worker) /\ WF_vars(Join)
       /\ WF_vars(ConsumerRun)

\* ================================================================ claims

\* Number of occurrences of slot s in queue q.
Count(q, s) == Cardinality({i \in DOMAIN q : q[i] = s})

Held(b, s) == IF b = s THEN 1 ELSE 0

\* Number of places (free queue, full queue, worker, consumer) that refer to s.
PlacesOf(free, full, wb, cb, s) ==
  Count(free, s) + Count(full, s) + Held(wb, s) + Held(cb, s)

Places(s) == PlacesOf(prefetch_free_, prefetch_full_, wbatch, cbatch, s)

\* C1: every slot is in exactly one of the free queue, the full queue, the
\* worker's in-flight fill and the consumer's in-flight drain, and the four
\* counts sum to N.
C1_SlotConservation ==
  /\ \A s \in Slots : Places(s) = 1
  /\ Len(prefetch_free_) + Len(prefetch_full_)
       + (IF wbatch # NoBatch THEN 1 ELSE 0)
       + (IF cbatch # NoBatch THEN 1 ELSE 0) = PREFETCH_COUNT

\* Three slots in three different places (full queue, worker, consumer)
\* after a stop request and after slots have been recycled.
C1_Witness ==
  /\ stopInfo.requested
  /\ PREFETCH_COUNT = 3
  /\ Len(delivered) >= 3
  /\ prefetch_full_ # <<>>
  /\ wbatch # NoBatch
  /\ cbatch # NoBatch

\* C2: no slot is written by the worker while the consumer reads it: the
\* two never hold the same slot, and the slot the consumer holds has no
\* load_batch in progress.
C2_SingleOwner ==
  /\ wbatch # NoBatch => wbatch # cbatch
  /\ cbatch # NoBatch => prefetch_[cbatch].complete

\* The worker is in the middle of load_batch while the consumer copies.
C2_Witness ==
  /\ PREFETCH_COUNT = 3
  /\ wpc = "loading"
  /\ cpc \in {"data", "labels"}
  /\ ~prefetch_[wbatch].complete

\* C3: the j-th Forward_cpu call that returns delivers the batch the loader
\* stamped j.
C3_DeliveryOrder ==
  \A j \in 1 .. Len(delivered) : delivered[j] = j

\* More calls than slots have returned.
C3_Witness ==
  /\ PREFETCH_COUNT > 1
  /\ Len(delivered) > PREFETCH_COUNT + 1

\* A slot is ready for the consumer: load_batch has returned and, in GPU
\* mode, its transfer was enqueued and the stream synchronized.
Published(s) ==
  /\ prefetch_[s].complete
  /\ prefetch_[s].data_.val[1] >= 1
  /\ gpu => prefetch_[s].staged = "synced"

\* C4: every slot in the full queue, and every slot the consumer popped
\* from it, is fully loaded and (in GPU mode) synchronized.
C4_OnlyCompletePublished ==
  /\ \A i \in DOMAIN prefetch_full_ : Published(prefetch_full_[i])
  /\ cbatch # NoBatch => Published(cbatch)

\* GPU mode: a synchronized slot is in the full queue and one with the consumer.
C4_Witness ==
  /\ gpu
  /\ prefetch_full_ # <<>>
  /\ cbatch # NoBatch
  /\ prefetch_[cbatch].staged = "synced"

\* The occupancy of slot s given the four places.
OccOf(free, full, wb, cb, s) ==
  IF PlacesOf(free, full, wb, cb, s) # 1 THEN "invalid"
  ELSE IF Count(free, s) = 1 THEN "free"
  ELSE IF wb = s THEN "filling"
  ELSE IF Count(full, s) = 1 THEN "full"
  ELSE "draining"

Occ(s) == OccOf(prefetch_free_, prefetch_full_, wbatch, cbatch, s)

Cycle == {<<"free", "filling">>, <<"filling", "full">>,
          <<"full", "draining">>, <<"draining", "free">>}

\* C5: every change of a slot's occupancy is one step of the cycle
\* free -> filling -> full -> draining -> free.
C5_CyclicOccupancy ==
  [][\A s \in Slots : Occ(s)' = Occ(s) \/ <<Occ(s), Occ(s)'>> \in Cycle]_vars

\* Slots have gone round the cycle more than once, and a stop was requested.
C5_Witness ==
  /\ stopInfo.requested
  /\ Len(delivered) > PREFETCH_COUNT
  /\ wpc = "stopped"

\* C6: a stop requested when no Forward_cpu call is outstanding and the full
\* queue is drained leads to the worker being Stopped and the join returning.
C6_ShutdownSafety ==
  (stopInfo.requested /\ stopInfo.drained) ~> (wpc = "stopped" /\ tpc = "done")

\* The join has returned after such a stop, batches having been consumed.
C6_Witness ==
  /\ stopInfo.requested
  /\ stopInfo.drained
  /\ Len(delivered) >= 1
  /\ wpc = "stopped"
  /\ tpc = "done"

\* C7: a stop requested while the worker is blocked in the free-queue pop on
\* an empty queue hands it no slot: it pops nothing and pushes nothing after
\* the request, goes through the catch and the cleanup only, and reaches
\* Stopped without any consumer step being needed.
C7_CancelWhileBlocked ==
  /\ [](stopInfo.blocked =>
          /\ stopInfo.pops = 0
          /\ stopInfo.pushes = 0
          /\ wbatch = NoBatch
          /\ wpc \in {"wait", "catch", "cleanup", "stopped"}
          /\ (wpc = "stopped" /\ gpu) => stream = "destroyed")
  /\ (stopInfo.blocked ~> wpc = "stopped")

\* The worker was blocked on the empty free queue at the request, has stopped,
\* and the consumer has since pushed a slot back.
C7_Witness ==
  /\ stopInfo.blocked
  /\ wpc = "stopped"
  /\ prefetch_free_ # <<>>

\* C8: with output_labels_ false no destination other than top[0] is ever
\* reshaped or written, and the return of Forward_cpu still appends the slot
\* to the free queue.
C8_LabelsDisabled ==
  /\ [](~output_labels_ =>
          /\ touched \subseteq {0}
          /\ \A i \in LabelIdx : top[i] = EmptyBlob)
  /\ [][(~output_labels_ /\ cpc \in {"data", "labels", "push"} /\ cpc' # cpc) =>
          \/ cpc = "data" /\ cpc' = "push" /\ UNCHANGED prefetch_free_
          \/ /\ cpc = "push"
             /\ cpc' = "idle"
             /\ prefetch_free_' = Append(prefetch_free_, cbatch)]_vars

\* Calls have returned with labels disabled.
C8_Witness ==
  /\ wpc # "idle"
  /\ ~output_labels_
  /\ Len(delivered) >= 2
  /\ top[0] = LoadedBlob(Len(delivered), 0)
  /\ prefetch_free_ # <<>>

\* The blobs the loader's k-th invocation produces, as the destinations
\* top[0..9] should receive them.
BatchAt(k) == [i \in 0 .. NumLabels |-> LoadedBlob(k, i)]

\* C9: with labels enabled, once a call has copied (and after it returns)
\* top[0] and every top[i] hold the arrays, shape and contents, of the single
\* load_batch invocation at that call's sequence position.
C9_BatchCoherence ==
  output_labels_ =>
    /\ cpc = "push" => top = BatchAt(Len(delivered) + 1)
    /\ (cpc \in {"idle", "pop", "wait"} /\ Len(delivered) >= 1) =>
         top = BatchAt(Len(delivered))

\* With labels enabled a call beyond the pool size is about to return while
\* the worker is loading another slot.
C9_Witness ==
  /\ output_labels_
  /\ cpc = "push"
  /\ Len(delivered) >= PREFETCH_COUNT
  /\ wpc = "loading"

\* After the fifth call of the end-to-end scenario (N = 2, no device staging).
AfterFifthCall ==
  /\ PREFETCH_COUNT = 2
  /\ ~gpu
  /\ cpc = "idle"
  /\ Len(delivered) = 5

\* C10 as stated: the five calls deliver 1..5 and afterwards the free queue
\* holds exactly 2 slots and no slot is full.
C10_Original ==
  AfterFifthCall =>
    /\ delivered = <<1, 2, 3, 4, 5>>
    /\ Len(prefetch_free_) = 2
    /\ Len(prefetch_full_) = 0

\* C10 amended: the five calls deliver 1..5 and afterwards no slot is being
\* drained; the 2 slots are spread over the free queue, the worker's fill in
\* progress and the full queue (the worker prefetches ahead).
C10_EndToEnd ==
  AfterFifthCall =>
    /\ delivered = <<1, 2, 3, 4, 5>>
    /\ top[0] = LoadedBlob(5, 0)
    /\ cbatch = NoBatch
    /\ Len(prefetch_free_) + Len(prefetch_full_)
         + (IF wbatch # NoBatch THEN 1 ELSE 0) = 2

\* After the fifth call the worker has already filled both slots again.
C10_Witness ==
  /\ AfterFifthCall
  /\ Len(prefetch_full_) = 2

C12_PushAndWakeup ==
  /\ [](/\ wpc = "push" => ENABLED W_Push
        /\ cpc = "push" => ENABLED C_Push
        /\ (wpc = "wait" /\ prefetch_free_ # <<>>) =>
             (notified.free \/ interruption_requested)
        /\ (cpc = "wait" /\ prefetch_full_ # <<>>) => notified.full)
  /\ [][/\ (wpc = "push" /\ wpc' # "push") =>
             prefetch_full_' = Append(prefetch_full_, wbatch)
        /\ (cpc = "push" /\ cpc' # "push") =>
             prefetch_free_' = Append(prefetch_free_, cbatch)]_vars
  /\ ((wpc = "wait" /\ prefetch_free_ # <<>>) ~>
        (wpc = "load" \/ stopInfo.requested))
  /\ ((cpc = "wait" /\ prefetch_full_ # <<>>) ~> cpc = "data")

\* The worker waits on the free queue, which the consumer has pushed to and
\* signalled; no stop is pending.
C12_Witness ==
  /\ wpc = "wait"
  /\ prefetch_free_ # <<>>
  /\ notified.free
  /\ ~interruption_requested
  /\ Len(delivered) >= 1

\* What a plain pop() returns from a non-empty queue and what it leaves.
PlainPop(q) == [slot |-> Head(q), queue |-> Tail(q)]

\* C13: pop(label) returns the slot and leaves the queue that pop() would;
\* the expiry of its warning interval only logs: the call stays inside pop,
\* holds no slot and no queue changes.
C13_DiagnosticPop ==
  [][/\ (warned' # warned \/ (cpc = "wait" /\ cpc' # "wait" /\ cpc' # "data")) =>
          /\ cpc = "wait"
          /\ cpc' = "pop"
          /\ cbatch = NoBatch
          /\ UNCHANGED <<cbatch, prefetch_full_, prefetch_free_>>
     /\ (cpc \in {"pop", "wait"} /\ cpc' \notin {"pop", "wait"}) =>
          /\ cpc' = "data"
          /\ prefetch_full_ # <<>>
          /\ cbatch' = PlainPop(prefetch_full_).slot
          /\ prefetch_full_' = PlainPop(prefetch_full_).queue]_vars

\* A call that logged its warning has then returned from pop with a slot,
\* the worker having pushed in between.
C13_Witness ==
  /\ warned
  /\ cpc = "data"
  /\ cbatch # NoBatch
  /\ Len(delivered) >= 1

\* The lifecycle state of the worker, read from the thread's position and
\* its pending interruption.
WState ==
  IF wpc = "idle" THEN "Idle"
  ELSE IF wpc = "stopped" THEN "Stopped"
  ELSE IF interruption_requested \/ wpc \in {"catch", "cleanup"} THEN "Stopping"
  ELSE "Running"

Lifecycle == {<<"Idle", "Running">>, <<"Running", "Stopping">>,
              <<"Stopping", "Stopped">>}

\* C14: the worker's state changes only along Idle -> Running -> Stopping ->
\* Stopped; it is Stopped only after a stop request; and while Idle or
\* Stopped it holds no slot, takes nothing from the free queue and adds
\* nothing to the full queue.
C14_WorkerLifecycle ==
  /\ [][WState' = WState \/ <<WState, WState'>> \in Lifecycle]_vars
  /\ []((wpc = "stopped" \/ WState = "Stopping") => stopInfo.requested)
  /\ [][(wpc \in {"idle", "stopped"}) =>
          /\ wbatch = NoBatch
          /\ wbatch' = wbatch
          /\ Len(prefetch_free_') >= Len(prefetch_free_)
          /\ Len(prefetch_full_) >= Len(prefetch_full_')]_vars

\* The worker is Stopped after having run, and the consumer is still at work
\* on the queues.
C14_Witness ==
  /\ WState = "Stopped"
  /\ cpc = "push"
  /\ Len(delivered) >= 1

\* C15: after a stop request the worker pushes at most one slot; when the
\* request finds it holding a slot, it pops nothing more, goes on to the push
\* and the loop-top test only, has pushed exactly that slot, fully loaded, by
\* the time it leaves the loop, and does reach Stopped.
C15_StopDuringFill ==
  /\ [](stopInfo.requested => stopInfo.pushes <= 1)
  /\ [](stopInfo.held # NoBatch =>
          /\ stopInfo.pops = 0
          /\ wpc \in {"load", "loading", "gpu_push", "gpu_sync", "push",
                      "check", "cleanup", "stopped"}
          /\ stopInfo.pushes = 1 => stopInfo.pushed = stopInfo.held
          /\ wpc \in {"check", "cleanup", "stopped"} =>
               /\ stopInfo.pushes = 1
               /\ wbatch = NoBatch
               /\ prefetch_[stopInfo.held].complete
               /\ gpu => prefetch_[stopInfo.held].staged = "synced")
  /\ (stopInfo.held # NoBatch ~> wpc = "stopped")

\* The request came in the middle of a GPU-mode fill and the worker has since
\* pushed that slot and stopped.
C15_Witness ==
  /\ gpu
  /\ stopInfo.held # NoBatch
  /\ stopInfo.pushed = stopInfo.held
  /\ wpc = "stopped"

\* C16: when the prefetch thread starts, the free queue holds the N slots
\* once each in index order 0 .. N-1, the full queue is empty and no slot is
\* held; and the worker's k-th load, for k up to N, fills slot k-1.
C16_StateAtStart ==
  /\ wpc \in {"idle", "entry"} =>
       /\ prefetch_free_ = [j \in 1 .. PREFETCH_COUNT |-> j - 1]
       /\ prefetch_full_ = <<>>
       /\ wbatch = NoBatch
       /\ cbatch = NoBatch
       /\ loads = 0
  /\ (wbatch # NoBatch /\ wpc # "load" /\ loads <= PREFETCH_COUNT) =>
       wbatch = loads - 1
  /\ (wpc = "load" /\ loads < PREFETCH_COUNT) => wbatch = loads

\* The worker is in its third load with three slots, after the consumer has
\* already returned a slot to the free queue.
C16_Witness ==
  /\ PREFETCH_COUNT = 3
  /\ wpc = "loading"
  /\ loads = 3
  /\ Len(delivered) >= 1

\* All N slots are in the full queue or with the consumer.
AllFullOrDraining ==
  Len(prefetch_full_) + (IF cbatch # NoBatch THEN 1 ELSE 0) = PREFETCH_COUNT

\* C17: the loads started exceed the calls that have returned their slot by
\* at most N; while all N slots are full or being drained the worker holds
\* no slot, is not past the free-queue pop and starts no load, and (unless a
\* stop is requested or a slot comes back) it ends up waiting in that pop.
C17_BoundedReadAhead ==
  /\ [](loads <= Len(delivered) + PREFETCH_COUNT)
  /\ [](AllFullOrDraining =>
          /\ wbatch = NoBatch
          /\ prefetch_free_ = <<>>
          /\ wpc \notin {"load", "loading", "gpu_push", "gpu_sync", "push"})
  /\ [][(AllFullOrDraining /\ AllFullOrDraining') => loads' = loads]_vars
  /\ ((AllFullOrDraining /\ wpc # "idle") ~>
        (wpc = "wait" \/ ~AllFullOrDraining \/ stopInfo.requested))

\* The worker is N loads ahead of the consumer and waits on the empty free
\* queue, with three slots and after calls have returned.
C17_Witness ==
  /\ PREFETCH_COUNT = 3
  /\ AllFullOrDraining
  /\ wpc = "wait"
  /\ loads = Len(delivered) + PREFETCH_COUNT
  /\ Len(delivered) >= 1

\* C18: the worker and the consumer are never both at an empty queue's pop
\* (the worker on the free queue, the consumer on the full queue), and every
\* Forward_cpu call returns unless a stop is requested.
C18_ConsumerProgress ==
  /\ []~(/\ wpc \in {"pop", "wait"}
         /\ prefetch_free_ = <<>>
         /\ cpc \in {"pop", "wait"}
         /\ prefetch_full_ = <<>>)
  /\ ((cpc # "idle") ~> (cpc = "idle" \/ stopInfo.requested))

\* With no stop requested, several calls have returned, one of them after
\* the consumer had to wait for the worker.
C18_Witness ==
  /\ ~stopInfo.requested
  /\ warned
  /\ cpc = "idle"
  /\ Len(delivered) >= 3

\* C19: a Stopped worker, whichever way it left the loop (the loop-top test
\* or the interruption of the free-queue pop), holds no slot: every slot is
\* exactly once in the free queue, the full queue or the consumer's hands.
C19_StoppedStrandsNothing ==
  wpc \in {"cleanup", "stopped"} =>
    /\ stopInfo.exit \in {"check", "interrupt"}
    /\ wbatch = NoBatch
    /\ \A s \in Slots :
         Count(prefetch_free_, s) + Count(prefetch_full_, s)
           + Held(cbatch, s) = 1
    /\ Len(prefetch_free_) + Len(prefetch_full_)
         + (IF cbatch # NoBatch THEN 1 ELSE 0) = PREFETCH_COUNT

\* The worker stopped through the interruption of its pop while the slots
\* were in the full queue and with the consumer.
C19_Witness ==
  /\ wpc = "stopped"
  /\ stopInfo.exit = "interrupt"
  /\ prefetch_full_ # <<>>
  /\ cbatch # NoBatch

====
